---- MODULE Spec2Model ----
(***************************************************************************)
(* Model of the DynamoDB attribute updater (src/dynamo/src):               *)
(* processTable scans a table page by page, selects the items that lack    *)
(* an attribute, derives an account id from each item's AgentArn and       *)
(* writes it back with one UpdateCommand per item.                         *)
(*                                                                         *)
(* Strings are sequences of one-character strings, so that split(':') and  *)
(* the /^\d{12}$/ test are computed as the code computes them.             *)
(***************************************************************************)
EXTENDS Integers, Sequences, FiniteSets, TLC

\* ------------------------------------------------------------------ bounds
MaxItems == 2        \* records in the table
MaxEmptyPages == 1   \* pages of zero items the store may return in one run
MaxArnParts == 7     \* segments of a string handed to getAccountIdFromArn
MaxKeyAttrs == 2     \* names in a keyAttributes list handed to updateItem on its own

\* ------------------------------------------------------- program constants
FirstBatchSize == 50
NextBatchSize == 100
MinArnParts == 6
AccountIdIndex == 4
AccountIdLength == 12

\* ------------------------------------------------------------ JS values
\* A value of a DynamoDBItem attribute (DynamoDBItem is [key: string]: any).
Str(s) == [t |-> "str", s |-> s, n |-> 0]
Num(n) == [t |-> "num", s |-> <<>>, n |-> n]
Null == [t |-> "null", s |-> <<>>, n |-> 0]
Undefined == [t |-> "undefined", s |-> <<>>, n |-> 0]

\* A method inherited from Object.prototype.
Func == [t |-> "function", s |-> <<>>, n |-> 0]

\* The properties every DynamoDBItem inherits: the document client builds an
\* item as a plain object, whose prototype is Object.prototype.
ObjectPrototype ==
  {"constructor", "hasOwnProperty", "isPrototypeOf", "propertyIsEnumerable",
   "toLocaleString", "toString", "valueOf"}

\* The value the store holds for an attribute of a record, Undefined when the
\* record has no such attribute.
Attr(record, name) == IF name \in DOMAIN record THEN record[name] ELSE Undefined

\* name in item: an own key or an inherited property.
In(name, item) == name \in DOMAIN item \/ name \in ObjectPrototype

\* item[name]: the value of an own key, else of an inherited property, else
\* undefined.
Get(item, name) ==
  IF name \in DOMAIN item THEN item[name]
  ELSE IF name \in ObjectPrototype THEN Func
  ELSE Undefined

\* JavaScript truthiness of a value (the operand of ! and of while (...)).
Truthy(v) ==
  CASE v.t = "undefined" -> FALSE
    [] v.t = "null" -> FALSE
    [] v.t = "str" -> v.s # <<>>
    [] v.t = "num" -> v.n # 0
    [] v.t = "function" -> TRUE

Digits == {"0", "1", "2", "3", "4", "5", "6", "7", "8", "9"}

\* ---------------------------------------------------------- String.split
RECURSIVE SplitAcc(_, _, _, _, _)
SplitAcc(s, sep, i, cur, acc) ==
  IF i > Len(s) THEN Append(acc, cur)
  ELSE IF s[i] = sep THEN SplitAcc(s, sep, i + 1, <<>>, Append(acc, cur))
  ELSE SplitAcc(s, sep, i + 1, Append(cur, s[i]), acc)

\* value.split(sep) for a one-character separator.
Split(s, sep) == SplitAcc(s, sep, 1, <<>>, <<>>)

\* Mutant: the pattern without its anchors, /\d{12}/.test(s).
IsAccountIdUnanchored(s) ==
  \E k \in 0..(Len(s) - AccountIdLength) :
    \A i \in 1..AccountIdLength : s[k + i] \in Digits

\* /^\d{12}$/.test(s)
IsAccountId(s) == Len(s) = AccountIdLength /\ \A i \in 1..Len(s) : s[i] \in Digits

\* ---------------------------------------------------- getAccountIdFromArn
Thrown(msg) == [ok |-> FALSE, value |-> <<>>, error |-> msg]
Returned(s) == [ok |-> TRUE, value |-> s, error |-> ""]

getAccountIdFromArn(value) ==
  IF ~Truthy(value) \/ value.t # "str"
  THEN Thrown("Invalid ARN: ARN must be a non-empty string")
  ELSE LET arnParts == Split(value.s, ":") IN
    IF Len(arnParts) < MinArnParts THEN Thrown("Invalid ARN format")
    ELSE LET accountId == arnParts[AccountIdIndex + 1] IN
      IF accountId = <<>> THEN Thrown("No account ID found in ARN")
      ELSE IF ~IsAccountId(accountId) THEN Thrown("Invalid account ID format")
      ELSE Returned(accountId)

\* ------------------------------------------------------------ input values
\* "arn:aws:service:us-west-2:886436930021:resource/x"
ArnValid ==
  <<"a","r","n",":","a","w","s",":","s","e","r","v","i","c","e",":",
    "u","s","-","w","e","s","t","-","2",":",
    "8","8","6","4","3","6","9","3","0","0","2","1",":",
    "r","e","s","o","u","r","c","e","/","x">>

\* "arn:aws:service:us-west-2:12345:resource/x"
ArnShortAccount ==
  <<"a","r","n",":","a","w","s",":","s","e","r","v","i","c","e",":",
    "u","s","-","w","e","s","t","-","2",":",
    "1","2","3","4","5",":",
    "r","e","s","o","u","r","c","e","/","x">>

PositionChars == <<"1", "2", "3", "4", "5", "6", "7", "8", "9">>

\* The decimal numeral of a positive number.
RECURSIVE Decimal(_)
Decimal(i) ==
  LET last == IF i % 10 = 0 THEN "0" ELSE PositionChars[i % 10] IN
  IF i < 10 THEN <<last>> ELSE Append(Decimal(i \div 10), last)

\* The attribute sets a stored record can have, apart from its position:
\* arn and acct are values, Undefined standing for "key absent".
Selectable == [arn |-> Str(ArnValid), ep |-> TRUE, acct |-> Undefined]
HasNullAccount == [arn |-> Str(ArnValid), ep |-> TRUE, acct |-> Null]
MalformedArn == [arn |-> Str(ArnShortAccount), ep |-> TRUE, acct |-> Undefined]
NoArn == [arn |-> Undefined, ep |-> TRUE, acct |-> Undefined]
NoEndpoint == [arn |-> Str(ArnValid), ep |-> FALSE, acct |-> Undefined]

Shapes == {Selectable, HasNullAccount, MalformedArn, NoArn, NoEndpoint}

\* The record stored at position i with the attributes of shape sh.
MakeItem(i, sh) ==
  LET names == {"id"}
        \cup (IF sh.arn.t # "undefined" THEN {"AgentArn"} ELSE {})
        \cup (IF sh.ep THEN {"EndpointName"} ELSE {})
        \cup (IF sh.acct.t # "undefined" THEN {"AccountId"} ELSE {})
  IN [a \in names |->
        CASE a = "id" -> Str(<<"i">> \o Decimal(i))
          [] a = "AgentArn" -> sh.arn
          [] a = "EndpointName" -> Str(<<"e">> \o Decimal(i))
          [] a = "AccountId" -> sh.acct]

\* A table stores only records that carry its whole primary key.
FitsSchema(sh, schema) ==
  /\ "AgentArn" \in schema => sh.arn.t = "str" /\ sh.arn.s # <<>>
  /\ "EndpointName" \in schema => sh.ep

Tables(schema) ==
  UNION {{[i \in 1..n |-> MakeItem(i, f[i])] :
            f \in [1..n -> {sh \in Shapes : FitsSchema(sh, schema)}]} :
         n \in 0..MaxItems}

\* The run configurations: the table's primary key and processTable's
\* arguments.
MainConfig ==
  [keySchema |-> {"AgentArn", "EndpointName"},
   keyAttributes |-> <<"AgentArn", "EndpointName">>,
   missingAttributeName |-> "AccountId", newAttributeName |-> "AccountId"]
DefaultKeyConfig ==
  [keySchema |-> {"id"}, keyAttributes |-> <<"id">>,
   missingAttributeName |-> "AccountId", newAttributeName |-> "AccountId"]
MismatchedKeyConfig ==
  [keySchema |-> {"id"}, keyAttributes |-> <<"AgentArn", "EndpointName">>,
   missingAttributeName |-> "AccountId", newAttributeName |-> "AccountId"]
TwoNamesConfig ==
  [keySchema |-> {"AgentArn", "EndpointName"},
   keyAttributes |-> <<"AgentArn", "EndpointName">>,
   missingAttributeName |-> "OwnerId", newAttributeName |-> "AccountId"]

Configs == {MainConfig, DefaultKeyConfig, MismatchedKeyConfig, TwoNamesConfig}

\* ------------------------------------------------------------------ state
VARIABLES
  table,                 \* the store: the records of the table, in scan order
  keySchema,             \* the store: the table's primary key attribute names
  emptyPages,            \* the store: pages of zero items returned this run
  keyAttributes,         \* processTable argument
  missingAttributeName,  \* processTable argument
  newAttributeName,      \* processTable argument
  pc,                    \* "scanning", "updating", "done" or "aborted"
  stats,                 \* ProcessingStats
  lastEvaluatedKey,      \* processTable local
  isFirstBatch,          \* processTable local
  scanResult,            \* processTable local: the page being processed
  itemsToUpdate,         \* processTable local: the selected items of the page
  cursor,                \* batchUpdateItems: index of the item of the for loop
  successful,            \* batchUpdateItems local
  failed,                \* batchUpdateItems local
  thrown,                \* what escaped processTable: "none", "scan", "derive", "update"
  result,                \* what processTable returned to its caller
  scanCalls,             \* history: the scan requests of this run and their replies
  writes,                \* history: the update requests of this run and their replies
  run,                   \* "first" or "second": the invocation of processTable
  prior,                 \* how the previous invocation ended
  unit                   \* one call of a function on its own: arguments and result

vars ==
  <<table, keySchema, emptyPages, keyAttributes, missingAttributeName,
    newAttributeName, pc, stats, lastEvaluatedKey, isFirstBatch, scanResult,
    itemsToUpdate, cursor, successful, failed, thrown, result, scanCalls,
    writes, run, prior, unit>>

\* What no step of processTable changes.
config == <<keySchema, keyAttributes, missingAttributeName, newAttributeName, unit>>

\* The variables of processTable and of the store.
processVars ==
  <<table, keySchema, emptyPages, keyAttributes, missingAttributeName,
    newAttributeName, pc, stats, lastEvaluatedKey, isFirstBatch, scanResult,
    itemsToUpdate, cursor, successful, failed, thrown, result, scanCalls,
    writes, run, prior>>

\* The continuation token: absent (undefined) or an opaque store-made value.
NoToken == [present |-> FALSE, pos |-> 0, id |-> 0]
Token(pos, id) == [present |-> TRUE, pos |-> pos, id |-> id]

ZeroStats ==
  [totalScanned |-> 0, itemsWithoutAttribute |-> 0,
   successfulUpdates |-> 0, failedUpdates |-> 0]

NoResult == [returned |-> FALSE, stats |-> ZeroStats]
NoPrior ==
  [pc |-> "none", thrown |-> "none", updated |-> FALSE, failedUpdates |-> FALSE,
   storeFailed |-> FALSE]
EmptyScanResult == [items |-> <<>>, lastEvaluatedKey |-> NoToken, hasMoreItems |-> FALSE]

\* processTable entered: the locals of lines 199-207.
EnterProcessTable ==
  /\ pc' = "scanning"
  /\ stats' = ZeroStats
  /\ lastEvaluatedKey' = NoToken
  /\ isFirstBatch' = TRUE
  /\ scanResult' = EmptyScanResult
  /\ itemsToUpdate' = <<>>
  /\ cursor' = 0
  /\ successful' = 0
  /\ failed' = 0
  /\ thrown' = "none"
  /\ result' = NoResult
  /\ scanCalls' = <<>>
  /\ writes' = <<>>
  /\ emptyPages' = 0

\* No function is called on its own.
NoUnit ==
  [fn |-> "none", done |-> FALSE,
   items |-> <<>>, attributeName |-> "", selected |-> <<>>,
   kind |-> "str", segs |-> <<>>, derived |-> Thrown(""),
   item |-> <<>>, keyAttrs |-> <<>>, key |-> <<>>]

\* processTable entered with configuration c against the table tbl.
InitProcessOn(c, tbl) ==
  /\ keySchema = c.keySchema
  /\ keyAttributes = c.keyAttributes
  /\ missingAttributeName = c.missingAttributeName
  /\ newAttributeName = c.newAttributeName
  /\ table = tbl
  /\ pc = "scanning"
  /\ stats = ZeroStats
  /\ lastEvaluatedKey = NoToken
  /\ isFirstBatch = TRUE
  /\ scanResult = EmptyScanResult
  /\ itemsToUpdate = <<>>
  /\ cursor = 0
  /\ successful = 0
  /\ failed = 0
  /\ thrown = "none"
  /\ result = NoResult
  /\ scanCalls = <<>>
  /\ writes = <<>>
  /\ emptyPages = 0
  /\ run = "first"
  /\ prior = NoPrior

InitProcess(configs) ==
  \E c \in configs : \E tbl \in Tables(c.keySchema) : InitProcessOn(c, tbl)

InitWith(configs) == InitProcess(configs) /\ unit = NoUnit

Init == InitWith(Configs)

\* ----------------------------------------------------------- the program
\* Mutant: the batch size never grows after the first page.
BatchSizeNeverGrows(first) == FirstBatchSize

\* const batchSize = isFirstBatch ? 50 : 100
BatchSize(first) == IF first THEN FirstBatchSize ELSE NextBatchSize

\* Mutant: hasMoreItems tells whether the page has items.
scanTableBatchByCount(response) ==
  [items |-> IF response.hasItems THEN response.Items ELSE <<>>,
   lastEvaluatedKey |-> response.LastEvaluatedKey,
   hasMoreItems |-> response.hasItems /\ Len(response.Items) > 0]

\* scanTableBatch, the try branch: the ScanResult built from the response.
scanTableBatch(response) ==
  [items |-> IF response.hasItems THEN response.Items ELSE <<>>,
   lastEvaluatedKey |-> response.LastEvaluatedKey,
   hasMoreItems |-> response.LastEvaluatedKey.present]

\* Mutant: the catch branch swallows the error and reports an empty last page.
scanTableBatchSwallows == [rethrow |-> FALSE, result |-> EmptyScanResult]

\* scanTableBatch, the catch branch: the error is logged and thrown again.
scanTableBatchCatch == [rethrow |-> TRUE, result |-> EmptyScanResult]

\* Mutant: the filter tests the value instead of the key, !item[attributeName].
filterItemsByFalsyValue(items, attributeName) ==
  SelectSeq(items, LAMBDA item : ~Truthy(Get(item, attributeName)))

\* Mutant: the selected items are returned last first.
filterItemsReversed(items, attributeName) ==
  LET kept == SelectSeq(items, LAMBDA item : ~In(attributeName, item))
  IN [j \in 1..Len(kept) |-> kept[Len(kept) - j + 1]]

\* items.filter(item => !(attributeName in item))
filterItemsFromTable(items, attributeName) ==
  SelectSeq(items, LAMBDA item : ~In(attributeName, item))

\* updateItem, the forEach that builds the key object: the listed names that
\* have a value on the item, in the order of their first insertion.
RECURSIVE BuildKeyFrom(_, _, _, _)
BuildKeyFrom(item, keyAttrs, i, key) ==
  IF i > Len(keyAttrs) THEN key
  ELSE LET keyAttr == keyAttrs[i]
           at == {j \in DOMAIN key : key[j].name = keyAttr}
       IN IF Get(item, keyAttr).t = "undefined"
          THEN BuildKeyFrom(item, keyAttrs, i + 1, key)
          ELSE IF at = {}
          THEN BuildKeyFrom(item, keyAttrs, i + 1,
                            Append(key, [name |-> keyAttr, value |-> Get(item, keyAttr)]))
          ELSE BuildKeyFrom(item, keyAttrs, i + 1,
                            [key EXCEPT ![CHOOSE j \in at : TRUE].value = Get(item, keyAttr)])

\* Mutant: the forEach ends at the first listed name the item lacks.
RECURSIVE BuildKeyUntilMissing(_, _)
BuildKeyUntilMissing(item, keyAttrs) ==
  IF Len(keyAttrs) = 0 \/ Get(item, Head(keyAttrs)).t = "undefined" THEN <<>>
  ELSE <<[name |-> Head(keyAttrs), value |-> Get(item, Head(keyAttrs))]>>
         \o BuildKeyUntilMissing(item, Tail(keyAttrs))

BuildKey(item, keyAttrs) == BuildKeyFrom(item, keyAttrs, 1, <<>>)

\* Mutant: the placeholder is left unresolved, the SET names "#attr" itself.
UpdateCommandUnresolvedName(item, attributeName, attributeValue, keyAttrs) ==
  [Key |-> BuildKey(item, keyAttrs),
   set |-> "#attr",
   value |-> Str(attributeValue)]

\* updateItem: the UpdateCommand, SET #attr = :val on the built key.
UpdateCommandOf(item, attributeName, attributeValue, keyAttrs) ==
  [Key |-> BuildKey(item, keyAttrs),
   set |-> attributeName,
   value |-> Str(attributeValue)]

\* Mutant: the catch branch throws the error again.
updateItemRethrows(reply) ==
  IF reply.ok
  THEN [success |-> TRUE, error |-> "", rethrow |-> FALSE]
  ELSE [success |-> FALSE, error |-> reply.error, rethrow |-> TRUE]

\* updateItem: the UpdateResult made of the store's reply; a failure is
\* caught and returned, never thrown.
updateItem(reply) ==
  IF reply.ok
  THEN [success |-> TRUE, error |-> "", rethrow |-> FALSE]
  ELSE [success |-> FALSE, error |-> reply.error, rethrow |-> FALSE]

\* Mutant: = instead of +=.
AddScannedAssigns(total, scannedItems) == Len(scannedItems)

\* stats.totalScanned += scannedItems.length
AddScanned(total, scannedItems) == total + Len(scannedItems)

\* Mutant: = instead of +=.
AddMissingAssigns(total, selected) == Len(selected)

\* stats.itemsWithoutAttribute += itemsToUpdate.length
AddMissing(total, selected) == total + Len(selected)

\* Mutant: the key is kept once set, lastEvaluatedKey ||= scanResult.lastEvaluatedKey.
NextExclusiveStartKeySticks(previousKey, page) ==
  IF previousKey.present THEN previousKey ELSE page.lastEvaluatedKey

\* lastEvaluatedKey = scanResult.lastEvaluatedKey
NextExclusiveStartKey(previousKey, page) == page.lastEvaluatedKey

\* Mutant: the loop condition is negated.
LoopConditionNegated(key) == ~key.present

\* } while (lastEvaluatedKey)
LoopCondition(key) == key.present

\* ------------------------------------------------------------- the store
\* The names and values of a key object.
KeyNames(key) == {key[j].name : j \in DOMAIN key}
KeyValue(key, name) == key[CHOOSE j \in DOMAIN key : key[j].name = name].value

\* The positions of the stored records a key designates.
Matching(tbl, key) ==
  {i \in DOMAIN tbl :
     \A name \in KeyNames(key) : Attr(tbl[i], name) = KeyValue(key, name)}

\* A key is valid when it names exactly the primary key attributes.
ValidKey(schema, key) == KeyNames(key) = schema

\* The table after an accepted SET: only the named attribute of the
\* designated record changes; a key that designates no record creates one.
StoreApply(tbl, command) ==
  LET hit == Matching(tbl, command.Key) IN
  IF hit = {}
  THEN Append(tbl, [a \in KeyNames(command.Key) \cup {command.set} |->
                      IF a = command.set THEN command.value
                      ELSE KeyValue(command.Key, a)])
  ELSE [i \in DOMAIN tbl |->
          IF i \in hit
          THEN [a \in DOMAIN tbl[i] \cup {command.set} |->
                  IF a = command.set THEN command.value ELSE tbl[i][a]]
          ELSE tbl[i]]

\* The replies the store can give to a scan that starts after `key` with
\* limit `limit`: at most `limit` of the records that follow, a token
\* whenever records remain, possibly a token when none remain. A reply may
\* come without Items only when it has no record and no token to give.
ScanResponses(tbl, limit, key, callId, empties) ==
  LET start == IF key.present THEN key.pos ELSE 0
      left == Len(tbl) - start
      most == IF left < limit THEN left ELSE limit
  IN {r \in [hasItems : BOOLEAN, count : 0..most, more : BOOLEAN] :
        /\ r.count < left => r.more
        /\ (r.count = 0 /\ r.more) => empties < MaxEmptyPages
        /\ ~r.hasItems => (r.count = 0 /\ ~r.more)}

ResponseOf(tbl, key, callId, r) ==
  LET start == IF key.present THEN key.pos ELSE 0 IN
  [hasItems |-> r.hasItems,
   Items |-> SubSeq(tbl, start + 1, start + r.count),
   LastEvaluatedKey |-> IF r.more THEN Token(start + r.count, callId) ELSE NoToken]

\* ---------------------------------------------------------------- actions
\* The end of one iteration of the do-while of processTable (lines 243-257).
FinishPage(newStats, page) ==
  LET key == NextExclusiveStartKey(lastEvaluatedKey, page) IN
  /\ stats' = newStats
  /\ lastEvaluatedKey' = key
  /\ isFirstBatch' = FALSE
  /\ IF LoopCondition(key)
     THEN pc' = "scanning" /\ result' = result
     ELSE pc' = "done" /\ result' = [returned |-> TRUE, stats |-> newStats]

\* The iteration of processTable from the reply of the scan to the start of
\* the updates (lines 216-235), or to the end of the iteration when nothing
\* was selected.
ProcessPage(page, call) ==
  LET scannedItems == page.items
      selected == filterItemsFromTable(scannedItems, missingAttributeName)
      newStats == [stats EXCEPT
                     !.totalScanned = AddScanned(@, scannedItems),
                     !.itemsWithoutAttribute = AddMissing(@, selected)]
  IN /\ scanResult' = page
     /\ itemsToUpdate' = selected
     /\ scanCalls' = Append(scanCalls, [call EXCEPT !.selected = Len(selected)])
     /\ successful' = 0
     /\ failed' = 0
     /\ thrown' = thrown
     /\ IF Len(selected) > 0
        THEN /\ pc' = "updating"
             /\ cursor' = 1
             /\ stats' = newStats
             /\ UNCHANGED <<lastEvaluatedKey, isFirstBatch, result>>
        ELSE /\ cursor' = 0
             /\ FinishPage(newStats, page)

\* One scan request that the store answers.
ScanPage ==
  /\ pc = "scanning"
  /\ LET limit == BatchSize(isFirstBatch)
         callId == Len(scanCalls) + 1
     IN \E r \in ScanResponses(table, limit, lastEvaluatedKey, callId, emptyPages) :
          LET response == ResponseOf(table, lastEvaluatedKey, callId, r)
              page == scanTableBatch(response)
              call == [limit |-> limit, token |-> lastEvaluatedKey, ok |-> TRUE,
                       hasItems |-> r.hasItems, count |-> r.count,
                       returned |-> response.LastEvaluatedKey, selected |-> 0]
          IN /\ ProcessPage(page, call)
             /\ emptyPages' = IF r.count = 0 /\ r.more THEN emptyPages + 1 ELSE emptyPages
  /\ UNCHANGED <<table, config, writes, run, prior>>

\* Mutant: a failed scan ends the run by returning the counters so far.
ScanFailsReturnsStats ==
  /\ pc = "scanning"
  /\ pc' = "aborted"
  /\ thrown' = "scan"
  /\ scanCalls' = Append(scanCalls,
                         [limit |-> BatchSize(isFirstBatch), token |-> lastEvaluatedKey,
                          ok |-> FALSE, hasItems |-> FALSE, count |-> 0,
                          returned |-> NoToken, selected |-> 0])
  /\ result' = [returned |-> TRUE, stats |-> stats]
  /\ UNCHANGED <<stats, lastEvaluatedKey, isFirstBatch, scanResult, itemsToUpdate,
                 cursor, successful, failed>>
  /\ UNCHANGED <<table, config, emptyPages, writes, run, prior>>

\* One scan request that fails in the store or on the way to it.
ScanFails ==
  /\ pc = "scanning"
  /\ LET call == [limit |-> BatchSize(isFirstBatch), token |-> lastEvaluatedKey,
                  ok |-> FALSE, hasItems |-> FALSE, count |-> 0,
                  returned |-> NoToken, selected |-> 0]
         caught == scanTableBatchCatch
     IN IF caught.rethrow
        THEN /\ pc' = "aborted"
             /\ thrown' = "scan"
             /\ scanCalls' = Append(scanCalls, call)
             /\ UNCHANGED <<stats, lastEvaluatedKey, isFirstBatch, scanResult,
                            itemsToUpdate, cursor, successful, failed, result>>
        ELSE ProcessPage(caught.result, call)
  /\ UNCHANGED <<table, config, emptyPages, writes, run, prior>>

\* Mutant: the for loop walks the selected items from the last to the first.
CurrentItemFromEnd == itemsToUpdate[Len(itemsToUpdate) - cursor + 1]

\* The item of the current iteration of the for loop of batchUpdateItems.
CurrentItem == itemsToUpdate[cursor]
\* Mutant: the account id is derived once, from the first item of the page.
DerivationOfFirstItem == getAccountIdFromArn(Get(itemsToUpdate[1], "AgentArn"))

CurrentDerivation == getAccountIdFromArn(Get(CurrentItem, "AgentArn"))
CurrentCommand ==
  UpdateCommandOf(CurrentItem, newAttributeName, CurrentDerivation.value, keyAttributes)

\* The rest of the iteration of the for loop once updateItem has returned
\* (lines 141-150), and of the iteration of processTable after the last item
\* (lines 237-247).
AfterUpdate(outcome) ==
  IF outcome.rethrow
  THEN /\ pc' = "aborted"
       /\ thrown' = "update"
       /\ UNCHANGED <<stats, lastEvaluatedKey, isFirstBatch, cursor, successful,
                      failed, result>>
  ELSE LET s == IF outcome.success THEN successful + 1 ELSE successful
           f == IF outcome.success THEN failed ELSE failed + 1
       IN /\ successful' = s
          /\ failed' = f
          /\ thrown' = thrown
          /\ IF cursor < Len(itemsToUpdate)
             THEN /\ cursor' = cursor + 1
                  /\ UNCHANGED <<pc, stats, lastEvaluatedKey, isFirstBatch, result>>
             ELSE /\ cursor' = cursor
                  /\ FinishPage([stats EXCEPT !.successfulUpdates = @ + s,
                                              !.failedUpdates = @ + f],
                                scanResult)

WriteRecord(accepted) ==
  [item |-> CurrentItem, command |-> CurrentCommand, accepted |-> accepted,
   page |-> Len(scanCalls)]

\* getAccountIdFromArn throws for the current item: nothing in
\* batchUpdateItems or processTable catches it.
DerivationThrows ==
  /\ pc = "updating"
  /\ ~CurrentDerivation.ok
  /\ pc' = "aborted"
  /\ thrown' = "derive"
  /\ UNCHANGED <<table, config, emptyPages, stats, lastEvaluatedKey, isFirstBatch,
                 scanResult, itemsToUpdate, cursor, successful, failed, result,
                 scanCalls, writes, run, prior>>

\* The update of the current item, accepted by the store.
UpdateAccepted ==
  /\ pc = "updating"
  /\ CurrentDerivation.ok
  /\ ValidKey(keySchema, CurrentCommand.Key)
  /\ table' = StoreApply(table, CurrentCommand)
  /\ writes' = Append(writes, WriteRecord(TRUE))
  /\ AfterUpdate(updateItem([ok |-> TRUE, error |-> ""]))
  /\ UNCHANGED <<config, emptyPages, scanResult, itemsToUpdate, scanCalls, run, prior>>

\* The update of the current item, rejected by the store (an invalid key) or
\* failed on the way to it.
UpdateRejected ==
  /\ pc = "updating"
  /\ CurrentDerivation.ok
  /\ writes' = Append(writes, WriteRecord(FALSE))
  /\ AfterUpdate(updateItem([ok |-> FALSE,
                             error |-> IF ValidKey(keySchema, CurrentCommand.Key)
                                       THEN "transport" ELSE "validation"]))
  /\ UNCHANGED <<table, config, emptyPages, scanResult, itemsToUpdate, scanCalls,
                 run, prior>>

\* A request of this run that the store did not serve.
StoreFailed ==
  \/ \E i \in DOMAIN writes : ~writes[i].accepted
  \/ \E i \in DOMAIN scanCalls : ~scanCalls[i].ok

\* processTable is called again, against the same store, once the previous
\* call has returned or thrown.
StartRun ==
  /\ pc \in {"done", "aborted"}
  /\ run = "first"
  /\ run' = "second"
  /\ prior' = [pc |-> pc, thrown |-> thrown,
               updated |-> stats.successfulUpdates > 0,
               failedUpdates |-> stats.failedUpdates > 0,
               storeFailed |-> StoreFailed]
  /\ EnterProcessTable
  /\ UNCHANGED <<table, config>>

Next ==
  \/ ScanPage
  \/ ScanFails
  \/ DerivationThrows
  \/ UpdateAccepted
  \/ UpdateRejected

\* One invocation of processTable.
Spec == Init /\ [][Next]_vars

NextTwice ==
  \/ Next
  \/ StartRun

\* Two invocations of processTable in succession against the same store, a
\* table keyed by AgentArn and EndpointName as main configures it.
InitTwice == InitWith({MainConfig, TwoNamesConfig})

SpecTwice == InitTwice /\ [][NextTwice]_vars

\* --------------------------------------------------- a table of 230 records
\* 230 records, none with AccountId: every AgentArn well formed, or one
\* record, the first or the last of a page, with a malformed AgentArn.
LargeTables ==
  {[i \in 1..230 |-> MakeItem(i, IF i = k THEN MalformedArn ELSE Selectable)] :
     k \in {0, 1, 50, 51, 150, 230}}

InitPagination ==
  /\ \E tbl \in LargeTables : InitProcessOn(MainConfig, tbl)
  /\ unit = NoUnit

\* A scan that the store answers with as many of the remaining records as
\* the limit allows, and with a token exactly when records remain after them.
ScanFullPage ==
  /\ ScanPage
  /\ LET call == scanCalls'[Len(scanCalls')]
         start == IF call.token.present THEN call.token.pos ELSE 0
         left == Len(table) - start
     IN /\ call.hasItems
        /\ call.count = (IF left < call.limit THEN left ELSE call.limit)
        /\ call.returned.present <=> call.count < left

NextPagination ==
  \/ ScanFullPage
  \/ DerivationThrows
  \/ UpdateAccepted

\* One invocation of processTable against a store that serves every request
\* and fills every page.
SpecPagination == InitPagination /\ [][NextPagination]_vars

\* ------------------------------------------------- the functions on their own
\* "886436930021"
AccountDigits == <<"8","8","6","4","3","6","9","3","0","0","2","1">>

\* The records a page handed to filterItemsFromTable can hold: the attribute
\* absent, or present with the value null, "", 0 or an account id.
AccountValues == {Undefined, Null, Str(<<>>), Num(0), Str(AccountDigits)}
FilterPages ==
  UNION {{[i \in 1..n |->
             MakeItem(i, [arn |-> Str(ArnValid), ep |-> TRUE, acct |-> f[i]])] :
            f \in [1..n -> AccountValues]} :
         n \in 0..MaxItems}
FilterNames == {"AccountId", "OwnerId", "toString"}

FilterCalls ==
  {[NoUnit EXCEPT !.fn = "filter", !.items = its, !.attributeName = a] :
     its \in FilterPages, a \in FilterNames}

\* segs[1] + sep + segs[2] + ...: the string that split(sep) takes apart.
RECURSIVE Join(_, _)
Join(segs, sep) ==
  IF Len(segs) = 0 THEN <<>>
  ELSE IF Len(segs) = 1 THEN segs[1]
  ELSE segs[1] \o <<sep>> \o Join(Tail(segs), sep)

\* What can stand at index 4 of an ARN: nothing, twelve digits, eleven,
\* thirteen, a leading +, a leading blank, a trailing letter, a trailing blank.
AccountSegments ==
  {<<>>, AccountDigits, Tail(AccountDigits), Append(AccountDigits, "0"),
   <<"+">> \o Tail(AccountDigits), <<" ">> \o Tail(AccountDigits),
   Append(Tail(AccountDigits), "x"), Append(AccountDigits, " ")}

\* The segment lists of the strings handed to getAccountIdFromArn.
ArnSegments ==
  UNION {{[i \in 1..n |->
             IF i = AccountIdIndex + 1 THEN a
             ELSE IF i = AccountIdIndex THEN r
             ELSE o] :
            a \in AccountSegments, r \in {<<"x">>, AccountDigits},
            o \in {<<>>, <<"x">>}} :
         n \in 1..MaxArnParts}

\* The argument of getAccountIdFromArn: undefined, null, a number, or the
\* string made of the segments.
ArnArgument(kind, segs) ==
  CASE kind = "undefined" -> Undefined
    [] kind = "null" -> Null
    [] kind = "num" -> Num(1)
    [] kind = "str" -> Str(Join(segs, ":"))

DeriveCalls ==
  {[NoUnit EXCEPT !.fn = "derive", !.kind = k] : k \in {"undefined", "null", "num"}}
  \cup {[NoUnit EXCEPT !.fn = "derive", !.kind = "str", !.segs = segs] :
          segs \in ArnSegments}

\* The records and keyAttributes lists handed to updateItem.
KeyItems == {MakeItem(1, sh) : sh \in Shapes}
KeyAttrNames == {"id", "AgentArn", "EndpointName", "AccountId", "toString"}
KeyAttrLists == UNION {[1..n -> KeyAttrNames] : n \in 0..MaxKeyAttrs}

KeyCalls ==
  {[NoUnit EXCEPT !.fn = "key", !.item = it, !.keyAttrs = ks] :
     it \in KeyItems, ks \in KeyAttrLists}

InitUnit ==
  /\ InitProcessOn(DefaultKeyConfig, <<>>)
  /\ unit \in FilterCalls \cup DeriveCalls \cup KeyCalls

CallFilter ==
  /\ unit.fn = "filter" /\ ~unit.done
  /\ unit' = [unit EXCEPT
                !.done = TRUE,
                !.selected = filterItemsFromTable(unit.items, unit.attributeName)]
  /\ UNCHANGED processVars

CallDerive ==
  /\ unit.fn = "derive" /\ ~unit.done
  /\ unit' = [unit EXCEPT
                !.done = TRUE,
                !.derived = getAccountIdFromArn(ArnArgument(unit.kind, unit.segs))]
  /\ UNCHANGED processVars

CallBuildKey ==
  /\ unit.fn = "key" /\ ~unit.done
  /\ unit' = [unit EXCEPT !.done = TRUE, !.key = BuildKey(unit.item, unit.keyAttrs)]
  /\ UNCHANGED processVars

NextUnit ==
  \/ CallFilter
  \/ CallDerive
  \/ CallBuildKey

\* One call of one function.
SpecUnit == InitUnit /\ [][NextUnit]_vars

\* ----------------------------------------------------------------- claims
Accepted == {i \in DOMAIN writes : writes[i].accepted}
Refused == {i \in DOMAIN writes : ~writes[i].accepted}

\* The counters of batchUpdateItems are not yet added to stats: the for loop
\* is running, or was left by an exception.
InBatch == pc = "updating" \/ thrown \in {"derive", "update"}
CountedSuccessful == stats.successfulUpdates + (IF InBatch THEN successful ELSE 0)
CountedFailed == stats.failedUpdates + (IF InBatch THEN failed ELSE 0)

\* C1: a failed derivation of the account id of a selected record is not
\* thrown out of the batch: the run is never ended by it, it only ends by
\* returning its stats or by a failed scan.
C1_DerivationFailureNotThrown ==
  /\ thrown # "derive"
  /\ pc = "aborted" => thrown = "scan"

\* C2: a rejected or failed update call is returned by updateItem as a failed
\* outcome and never thrown; every update request is counted once, as
\* successful exactly when the store accepted it, whatever happened to the
\* requests before it; a run that completes has sent one request for every
\* selected record.
C2_UpdateFailureIsolated ==
  /\ thrown # "update"
  /\ CountedSuccessful = Cardinality(Accepted)
  /\ CountedFailed = Cardinality(Refused)
  /\ pc = "done" => Len(writes) = stats.itemsWithoutAttribute

\* C2 witness: a completed run in which, within one page, an update was
\* refused and the update of the next selected record was accepted.
C2_Witness ==
  /\ pc = "done"
  /\ stats.failedUpdates = 1
  /\ stats.successfulUpdates = 1
  /\ \E i, j \in DOMAIN writes :
       /\ i < j
       /\ writes[i].page = writes[j].page
       /\ ~writes[i].accepted
       /\ writes[j].accepted

\* C3: in every run that has ended, by returning or by throwing,
\* itemsWithoutAttribute = successfulUpdates + failedUpdates.
C3_MissingIsUpdatedPlusFailed ==
  pc \in {"done", "aborted"} =>
    stats.itemsWithoutAttribute = stats.successfulUpdates + stats.failedUpdates

\* C4: a failed scan call is the last request of the run: the run is aborted
\* by it, it is not retried, no scan and no update follows it, and no stats
\* are returned.
C4_ScanFailureAborts ==
  \A i \in DOMAIN scanCalls :
    ~scanCalls[i].ok =>
      /\ i = Len(scanCalls)
      /\ pc = "aborted"
      /\ thrown = "scan"
      /\ ~result.returned
      /\ \A w \in DOMAIN writes : writes[w].page < i

\* C4 witness: the scan of a later page failed after updates were written.
C4_Witness ==
  /\ Len(scanCalls) > 1
  /\ ~scanCalls[Len(scanCalls)].ok
  /\ writes # <<>>
  /\ pc = "aborted"

LastCall == scanCalls[Len(scanCalls)]

\* C5: the loop of processTable ends exactly when the most recent scan
\* returned no continuation token: a run is done only after a reply without
\* a token, and every reply with a token, whatever the number of its items,
\* leaves the run in the loop, so every scan call but the last carried a token
\* in its reply.
C5_LoopEndsOnMissingToken ==
  /\ pc = "done" => scanCalls # <<>> /\ ~LastCall.returned.present
  /\ (pc = "scanning" /\ scanCalls # <<>>) => LastCall.returned.present
  /\ \A i \in DOMAIN scanCalls : i < Len(scanCalls) => scanCalls[i].returned.present

\* C5 witness: a page of zero items with a token was followed by another
\* scan call.
C5_Witness ==
  \E i \in DOMAIN scanCalls :
    /\ i < Len(scanCalls)
    /\ scanCalls[i].ok
    /\ scanCalls[i].count = 0
    /\ scanCalls[i].returned.present

\* C6: the first scan call of a run requests a limit of 50 and every later
\* one a limit of 100, whatever the earlier pages returned.
C6_LimitFiftyThenHundred ==
  \A i \in DOMAIN scanCalls : scanCalls[i].limit = IF i = 1 THEN 50 ELSE 100

\* C6 witness: three scan calls, the first of which returned less than the
\* second.
C6_Witness ==
  /\ Len(scanCalls) >= 3
  /\ scanCalls[1].count < scanCalls[2].count

\* C7: the first scan call carries no token, and scan call n+1 carries
\* exactly the token the store returned from scan call n, never the token of
\* an older page.
C7_TokenPassedVerbatim ==
  \A i \in DOMAIN scanCalls :
    /\ i = 1 => scanCalls[i].token = NoToken
    /\ i > 1 => scanCalls[i].token = scanCalls[i - 1].returned
    /\ \A j \in DOMAIN scanCalls : j < i - 1 => scanCalls[i].token # scanCalls[j].returned

\* C7 witness: a third scan call was made, with the token of the second.
C7_Witness ==
  /\ Len(scanCalls) >= 3
  /\ scanCalls[3].token.present
  /\ scanCalls[3].token = scanCalls[2].returned
  /\ scanCalls[2].returned # scanCalls[1].returned

RECURSIVE SumCounts(_)
SumCounts(calls) ==
  IF calls = <<>> THEN 0 ELSE calls[1].count + SumCounts(Tail(calls))

\* C8: totalScanned is the sum of the numbers of items the store returned
\* over the scan calls of the run.
C8_ScannedIsSumOfPages == stats.totalScanned = SumCounts(scanCalls)

\* C8 witness: a completed run with a page of zero items, a page of which
\* nothing was selected and a page of which something was.
C8_Witness ==
  /\ pc = "done"
  /\ stats.totalScanned >= 2
  /\ \E i, j, k \in DOMAIN scanCalls :
       /\ scanCalls[i].count = 0
       /\ scanCalls[j].count > 0 /\ scanCalls[j].selected = 0
       /\ scanCalls[k].count > 0 /\ scanCalls[k].selected > 0

SecondRunSelectsNothing ==
  stats.itemsWithoutAttribute = 0 /\ stats.successfulUpdates = 0

\* C9, as stated: when processTable runs twice in succession, the first run
\* returning its stats, and no request to the store fails, the second run
\* selects nothing and updates nothing.
C9_SecondRunSelectsNothing ==
  (/\ run = "second"
   /\ prior.pc = "done"
   /\ ~prior.storeFailed
   /\ ~StoreFailed) => SecondRunSelectsNothing

\* C9, amended: when the first run returned with failedUpdates = 0 and the
\* attribute it writes is the attribute whose absence selects a record, the
\* second run selects nothing and updates nothing.
C9_SecondRunAfterCleanRun ==
  (/\ run = "second"
   /\ prior.pc = "done"
   /\ ~prior.failedUpdates
   /\ missingAttributeName = newAttributeName) => SecondRunSelectsNothing

\* C9 witness: a second run that scanned the whole table to the end after a
\* first run that updated records and returned without a failed update.
C9_Witness ==
  /\ run = "second"
  /\ prior.pc = "done"
  /\ prior.updated
  /\ ~prior.failedUpdates
  /\ missingAttributeName = newAttributeName
  /\ pc = "done"
  /\ stats.totalScanned = Len(table)
  /\ Len(table) >= 2

\* The key of an update request designates the record it was built from.
KeyOfItem(w) ==
  \A name \in KeyNames(w.command.Key) :
    Attr(w.item, name) = KeyValue(w.command.Key, name)

\* C10, as stated: a record is written only if the attribute the write sets
\* was absent from it when its page was filtered.
C10_WrittenOnlyIfTargetAbsent ==
  \A i \in DOMAIN writes :
    /\ writes[i].command.set = newAttributeName
    /\ ~(newAttributeName \in DOMAIN writes[i].item)

\* C10, amended: a record is written only if the attribute named by
\* missingAttributeName was absent from it, as a key, when its page was
\* filtered; a record that holds that key, even with a null value, is never
\* written.
C10_WrittenOnlyIfMissingAbsent ==
  \A i \in DOMAIN writes :
    /\ KeyOfItem(writes[i])
    /\ ~(missingAttributeName \in DOMAIN writes[i].item)

\* C10 witness: a completed run that wrote a record and scanned, without
\* writing it, a record that holds the attribute with a null value.
C10_Witness ==
  /\ pc = "done"
  /\ Accepted # {}
  /\ \E p \in DOMAIN scanCalls : scanCalls[p].count > scanCalls[p].selected
  /\ \E r \in DOMAIN table :
       /\ missingAttributeName \in DOMAIN table[r]
       /\ table[r][missingAttributeName] = Null

\* The update requests sent for the selected records of page p.
WritesOfPage(p) == {i \in DOMAIN writes : writes[i].page = p}

\* The pages whose iteration of processTable is over.
PageIsOver(p) == p < Len(scanCalls) \/ pc \in {"done", "aborted"}

\* C11: exactly one write is issued for every selected record of every
\* scanned page: no record is written twice, no page gets more writes than
\* selected records, and a page whose iteration is over got one write for
\* each of its selected records.
C11_OneWritePerSelected ==
  /\ \A i, j \in DOMAIN writes : i # j => writes[i].item # writes[j].item
  /\ \A p \in DOMAIN scanCalls :
       /\ Cardinality(WritesOfPage(p)) <= scanCalls[p].selected
       /\ PageIsOver(p) => Cardinality(WritesOfPage(p)) = scanCalls[p].selected

\* Record i of the page handed to filterItemsFromTable is in its result.
IsSelected(i) == \E j \in DOMAIN unit.selected : unit.selected[j] = unit.items[i]

\* C12: filterItemsFromTable selects a record iff the attribute name is not a
\* key of the record: a record that holds the attribute, be it with the value
\* null, "" or 0, is excluded, and a record without the key is included.
C12_SelectedIffKeyAbsent ==
  (unit.fn = "filter" /\ unit.done) =>
    \A i \in DOMAIN unit.items :
      IsSelected(i) <=> ~(unit.attributeName \in DOMAIN unit.items[i])

\* The argument handed to getAccountIdFromArn is a string of at least 6
\* segments whose segment of index 4 is exactly 12 decimal digits.
WellFormedArn ==
  /\ unit.kind = "str"
  /\ Len(unit.segs) >= 6
  /\ Len(unit.segs[5]) = 12
  /\ \A i \in 1..12 : unit.segs[5][i] \in Digits

\* C13: getAccountIdFromArn returns the segment of index 4 unchanged when its
\* argument is a non-empty string of at least 6 colon-separated segments
\* whose segment 4 is exactly 12 decimal digits, and throws in every other
\* case.
C13_DerivesSegmentFour ==
  (unit.fn = "derive" /\ unit.done) =>
    IF WellFormedArn
    THEN unit.derived.ok /\ unit.derived.value = unit.segs[5]
    ELSE ~unit.derived.ok

C13_Witness ==
  /\ unit.fn = "derive" /\ unit.done
  /\ WellFormedArn
  /\ Len(unit.segs) = 7
  /\ unit.derived = Returned(AccountDigits)

\* C14: a store of 230 records without the attribute is processed with
\* exactly 3 scans that return 50, then 100, then 80 items, and the run
\* reports totalScanned = 230.
C14_ThreeScansOf230 ==
  /\ Len(scanCalls) <= 3
  /\ pc \in {"done", "aborted"} =>
       /\ Len(scanCalls) = 3
       /\ scanCalls[1].count = 50 /\ scanCalls[2].count = 100 /\ scanCalls[3].count = 80
       /\ result.returned /\ result.stats.totalScanned = 230

\* The update request of the step being taken, when the step sends one.
SendsUpdate == Len(writes') = Len(writes) + 1
SentUpdate == writes'[Len(writes')]

\* C15: an update carries one SET, of the target attribute to the derived
\* value, on the key of the record; a served update leaves the number of
\* records, every other record and every other attribute of the record as
\* they were, and an update that is not served changes nothing.
C15_UpdateSetsOnlyTarget ==
  [][SendsUpdate =>
       /\ SentUpdate.command.set = newAttributeName
       /\ SentUpdate.command.value =
            Str(getAccountIdFromArn(Attr(SentUpdate.item, "AgentArn")).value)
       /\ ~SentUpdate.accepted => table' = table
       /\ SentUpdate.accepted =>
            /\ Len(table') = Len(table)
            /\ \A r \in DOMAIN table :
                 /\ DOMAIN table'[r] \subseteq DOMAIN table[r] \cup {newAttributeName}
                 /\ \A a \in DOMAIN table[r] \ {newAttributeName} :
                      a \in DOMAIN table'[r] /\ table'[r][a] = table[r][a]
                 /\ table'[r] # table[r] =>
                      /\ \A a \in DOMAIN SentUpdate.item : table[r][a] = SentUpdate.item[a]
                      /\ table'[r][newAttributeName] = SentUpdate.command.value
  ]_vars

C15_Witness ==
  \E i \in DOMAIN writes : \E r \in DOMAIN table :
    LET w == writes[i] IN
    /\ w.accepted
    /\ ~(newAttributeName \in DOMAIN w.item)
    /\ Len(table) = 2
    /\ table[r] = [a \in DOMAIN w.item \cup {newAttributeName} |->
                     IF a = newAttributeName THEN Str(AccountDigits) ELSE w.item[a]]

\* The names of a keyAttributes list.
Listed(keyAttrs) == {keyAttrs[j] : j \in DOMAIN keyAttrs}

\* C16: the key built for an update holds exactly the listed names that are
\* attributes of the record, each once and with the record's value; a listed
\* name the record lacks is skipped, and nothing outside the list is copied.
C16_KeyIsListedAttributesPresent ==
  (unit.fn = "key" /\ unit.done) =>
    /\ KeyNames(unit.key) = Listed(unit.keyAttrs) \cap DOMAIN unit.item
    /\ \A i, j \in DOMAIN unit.key : unit.key[i].name = unit.key[j].name => i = j
    /\ \A j \in DOMAIN unit.key : unit.key[j].value = Attr(unit.item, unit.key[j].name)

\* The lists that hold the names of keyAttrs in another order.
Reordered(keyAttrs) ==
  {[j \in DOMAIN keyAttrs |-> keyAttrs[pi[j]]] : pi \in Permutations(DOMAIN keyAttrs)}

\* Two key objects with the same names and the same value for each name.
SameKey(k1, k2) ==
  /\ KeyNames(k1) = KeyNames(k2)
  /\ \A name \in KeyNames(k1) : KeyValue(k1, name) = KeyValue(k2, name)

\* C17: the order of keyAttributes does not matter: with the names in any
\* other order, every update sent so far would have carried the same key,
\* valid or invalid alike, and the update of the current record would carry
\* the same key and leave the same table, so that the outcomes and the
\* counters are the same.
C17_KeyOrderIrrelevant ==
  \A ks \in Reordered(keyAttributes) :
    /\ \A i \in DOMAIN writes :
         LET key == BuildKey(writes[i].item, ks) IN
         /\ SameKey(key, writes[i].command.Key)
         /\ ValidKey(keySchema, key) <=> ValidKey(keySchema, writes[i].command.Key)
    /\ (pc = "updating" /\ CurrentDerivation.ok) =>
         LET command == UpdateCommandOf(CurrentItem, newAttributeName,
                                        CurrentDerivation.value, ks)
         IN /\ SameKey(command.Key, CurrentCommand.Key)
            /\ ValidKey(keySchema, command.Key) <=> ValidKey(keySchema, CurrentCommand.Key)
            /\ StoreApply(table, command) = StoreApply(table, CurrentCommand)

C17_Witness ==
  \E i \in DOMAIN writes : \E ks \in Reordered(keyAttributes) :
    /\ writes[i].accepted
    /\ Len(writes[i].command.Key) = 2
    /\ BuildKey(writes[i].item, ks) # writes[i].command.Key
    /\ pc = "done"

Counters == {"totalScanned", "itemsWithoutAttribute", "successfulUpdates", "failedUpdates"}

\* C18: the four counters of a run start at 0, are natural numbers in every
\* state, and no step of the run decreases or resets any of them.
C18_CountersMonotonic ==
  /\ \A c \in Counters : stats[c] = 0
  /\ [](DOMAIN stats = Counters /\ \A c \in Counters : stats[c] \in Nat)
  /\ [][\A c \in Counters : stats'[c] >= stats[c]]_vars

C18_Witness ==
  /\ pc = "done"
  /\ Len(scanCalls) = 3
  /\ scanCalls[1].selected = 1 /\ scanCalls[2].count = 0 /\ scanCalls[3].selected = 1
  /\ stats = [totalScanned |-> 2, itemsWithoutAttribute |-> 2,
              successfulUpdates |-> 1, failedUpdates |-> 1]

\* The place in the table of the record an update request was made for.
PositionOf(w) == CHOOSE r \in DOMAIN table : table[r]["id"] = w.item["id"]

\* The requests sent to the store so far.
Requests == Len(scanCalls) + Len(writes)

\* C19: pages and the records of a page are processed one after the other:
\* a step sends at most one request and has its reply before the next step;
\* an update is sent only while the page of the latest scan is being
\* updated; when a later scan has been sent, every selected record of the
\* page has had its update attempt; and the updates follow the order of the
\* pages and, within a page, the order of the records.
C19_StrictlySequential ==
  /\ [](\A p \in DOMAIN scanCalls :
          p < Len(scanCalls) => Cardinality(WritesOfPage(p)) = scanCalls[p].selected)
  /\ [](\A i, j \in DOMAIN writes :
          i < j => /\ writes[i].page <= writes[j].page
                   /\ writes[i].page = writes[j].page =>
                        PositionOf(writes[i]) < PositionOf(writes[j]))
  /\ [][/\ Requests' <= Requests + 1
        /\ Len(writes') > Len(writes) =>
             /\ pc = "updating"
             /\ scanCalls' = scanCalls
             /\ writes'[Len(writes')].page = Len(scanCalls)
        /\ Len(scanCalls') > Len(scanCalls) =>
             /\ pc = "scanning"
             /\ writes' = writes]_vars

C19_Witness ==
  /\ pc = "done"
  /\ Len(scanCalls) = 2
  /\ scanCalls[1].selected = 2
  /\ Len(writes) = 2
  /\ PositionOf(writes[1]) = 1 /\ PositionOf(writes[2]) = 2

\* No scan request of the run has failed.
NoScanFailed == \A p \in DOMAIN scanCalls : scanCalls[p].ok

\* C20: a run none of whose scans failed is never ended short of DONE,
\* whatever derivations or updates failed: nothing is thrown out of it; and
\* when it is DONE it has returned its counters and takes no further step.
C20_RunReachesDone ==
  /\ NoScanFailed => pc # "aborted"
  /\ pc = "done" => (result.returned /\ result.stats = stats /\ ~ENABLED Next)

\* sub holds elements of seq, in the order they have in seq.
IsSubsequence(sub, seq) ==
  \E f \in [DOMAIN sub -> DOMAIN seq] :
    /\ \A j \in DOMAIN sub : sub[j] = seq[f[j]]
    /\ \A i, j \in DOMAIN sub : i < j => f[i] < f[j]

\* C21: filterItemsFromTable is pure and keeps the order: its result holds
\* records of the page only, in the order they have in the page, and the
\* call leaves the page and each of its records as they were.
C21_FilterKeepsOrderAndInput ==
  /\ []((unit.fn = "filter" /\ unit.done) => IsSubsequence(unit.selected, unit.items))
  /\ [][unit.fn = "filter" =>
          /\ unit'.items = unit.items
          /\ unit'.attributeName = unit.attributeName]_vars

C21_Witness ==
  /\ unit.fn = "filter" /\ unit.done
  /\ Len(unit.items) = 2
  /\ unit.selected = unit.items

\* The latest scan was answered: scanResult is the page made of its reply.
PageOfLastCall == Len(scanCalls) > 0 /\ LastCall.ok

\* C22: the page scanTableBatch returns has hasMoreItems true exactly when
\* the reply carried a token, has that token as lastEvaluatedKey, and has no
\* items when the reply had none; the loop condition of processTable on the
\* page's token is hasMoreItems, so the run scans again after the page
\* exactly when hasMoreItems is true, whatever the number of items.
C22_HasMoreIffToken ==
  PageOfLastCall =>
    /\ scanResult.hasMoreItems <=> LastCall.returned.present
    /\ scanResult.lastEvaluatedKey = LastCall.returned
    /\ Len(scanResult.items) = LastCall.count
    /\ ~LastCall.hasItems => scanResult.items = <<>>
    /\ LoopCondition(scanResult.lastEvaluatedKey) <=> scanResult.hasMoreItems
    /\ pc \in {"scanning", "done"} =>
         /\ lastEvaluatedKey = scanResult.lastEvaluatedKey
         /\ pc = "scanning" <=> scanResult.hasMoreItems

C22_Witness ==
  /\ pc = "done"
  /\ Len(scanCalls) = 3
  /\ scanCalls[1].count = 0 /\ scanCalls[1].returned.present
  /\ scanCalls[2].count = 2 /\ scanCalls[2].returned.present
  /\ ~scanCalls[3].hasItems
  /\ ~scanResult.hasMoreItems

\* The segments of the AgentArn of the record an update request was made for.
ArnPartsOf(w) == Split(Attr(w.item, "AgentArn").s, ":")

StillApplied(w) ==
  /\ Matching(table, w.command.Key) # {}
  /\ \A r \in Matching(table, w.command.Key) :
       Attr(table[r], w.command.set) = w.command.value

\* C24: a run that aborts undoes nothing and returns nothing: every update
\* the store served before the abort, on an earlier page or earlier on the
\* page of the abort, is still applied in the store, and the caller gets no
\* counters, whatever they had reached.
C24_AbortKeepsWritesLosesCounters ==
  pc = "aborted" =>
    /\ \A i \in DOMAIN writes : writes[i].accepted => StillApplied(writes[i])
    /\ result = NoResult

C24_Witness ==
  /\ pc = "aborted"
  /\ thrown = "scan"
  /\ Len(scanCalls) = 2
  /\ stats.totalScanned = 1 /\ stats.successfulUpdates = 1
  /\ Len(writes) = 1 /\ writes[1].accepted
  /\ Len(table) = 2
  /\ Attr(table[1], newAttributeName) = Str(AccountDigits)
  /\ ~result.returned
====
